---- MODULE Spec2Model ----
(***************************************************************************)
(* Teaching circuits of the repository (blinker/adder, PWM ramp, block      *)
(* RAMs, debounced classic FSM) over the current/next signal discipline     *)
(* they are written against: sequential blocks read current values at a    *)
(* rising clock edge and write next values that are committed together;     *)
(* combinational blocks are re-evaluated in rounds until nothing changes.   *)
(***************************************************************************)
EXTENDS Integers, Sequences, FiniteSets, TLC

VARIABLES
    design,     \* which top-level chunk is elaborated (fixed by Init)
    cur,        \* record: current value of every signal
    nxt,        \* record: scheduled next value of every signal
    phase,      \* "idle" | "edge" | "settle"
    pend,       \* logic blocks still to be evaluated in this edge / round
    tb,         \* test bench position: "low" (about to drive clk=0) | "high"
    pre,        \* signal values sampled just before the last rising edge
    obs         \* history: edge count and per-design observations

vars == <<design, cur, nxt, phase, pend, tb, pre, obs>>

\* ------------------------------------------------------------- bounds

\* debounce_time of the stand-alone debouncer.
DebounceTime == 3
\* the edge counter of the history saturates here.
EdgeCap == 5
\* number of one-bit stages of the stand-alone adder.
AdderLen == 3
\* debounce_time of the two debouncers inside classic_fsm, scaled down.
FsmDebounceTime == 2
\* width of the stand-alone register.
RegLen == 3
\* width of the RAM address buses (2^RamAddrLen locations).
RamAddrLen == 1
\* frq_in / frq_sample of sample_en inside record_play, scaled down.
SampleRatio == 3
\* width of addr and end_addr inside record_play, scaled down.
RecAddrLen == 1

\* ---------------------------------------------------- program constants

\* blinker(clk, led, 3)
BlinkerLen == 3
\* clk_sim(clk, num_cycles=16)
NumCycles == 16
\* wax_wane(clk, led, 6)
RampLen == 6
\* data_i = Bus(1), data_o = Bus(1): the data width the RAM is instantiated with
RamDataLen == 1

\* ------------------------------------------------------------ helpers

Bit == {0, 1}

Pow2(n) == 2 ^ n

Min(a, b) == IF a < b THEN a ELSE b

\* int(ceil(log2(x))) for x >= 1
CeilLog2(x) == CHOOSE w \in 0..x : Pow2(w) >= x /\ (w = 0 \/ Pow2(w - 1) < x)

\* value v stored in a bus of the given width (modular bit vector)
Wrap(v, width) == v % Pow2(width)

\* a bus as its bits, least significant first: index k is bit k
Bits(v, len) == [k \in 0..(len - 1) |-> (v \div Pow2(k)) % 2]

RECURSIVE BusValUpTo(_, _)
BusValUpTo(bus, k) ==
    IF k < 0 THEN 0 ELSE bus[k] * Pow2(k) + BusValUpTo(bus, k - 1)

\* the unsigned value carried by a bus indexed from 0
BusVal(bus) == BusValUpTo(bus, Cardinality(DOMAIN bus) - 1)

Xor(x, y) == (x + y) % 2

And(x, y) == x * y

Or(x, y) == IF x + y > 0 THEN 1 ELSE 0

\* ------------------------------------------------ adder, counter, blinker

dff_logic(c, n) == [n EXCEPT !.q_o = c.d_i]

\* every stage wired to bit 0 of d_i
register_all_from_bit_0(k, d_i, q_next) ==
    [q_next EXCEPT ![k] = dff_logic([d_i |-> d_i[0]], [q_o |-> q_next[k]]).q_o]

\* register: one dff per bit, stage k
register(k, d_i, q_next) ==
    [q_next EXCEPT ![k] = dff_logic([d_i |-> d_i[k]], [q_o |-> q_next[k]]).q_o]

\* the stage with the carry-in left out of the carry-out
full_adder_bit_logic_no_carry_in(c, n) ==
    [n EXCEPT !.s_o = Xor(Xor(c.a_i, c.b_i), c.c_i),
              !.c_o = And(c.a_i, c.b_i)]

full_adder_bit_logic(c, n) ==
    [n EXCEPT !.s_o = Xor(Xor(c.a_i, c.b_i), c.c_i),
              !.c_o = Or(Or(And(c.a_i, c.b_i), And(c.a_i, c.c_i)), And(c.b_i, c.c_i))]

\* adder: stage k reads bit k of a_i, b_i and carry k, drives sum bit k and
\* carry k+1; returns the next slots of the sum bus and of the carry bus
adder(k, a_i, b_i, carry, s_next, c_next) ==
    LET r == full_adder_bit_logic(
                 [a_i |-> a_i[k], b_i |-> b_i[k], c_i |-> carry[k]],
                 [s_o |-> s_next[k], c_o |-> c_next[k + 1]])
    IN  [s |-> [s_next EXCEPT ![k] = r.s_o], c |-> [c_next EXCEPT ![k + 1] = r.c_o]]

\* the LED taken from the bit below the top one
blinker_output_logic_low_bit(c, n, length) ==
    [n EXCEPT !.led = c.cnt[length - 2]]

blinker_output_logic(c, n, length) ==
    [n EXCEPT !.led = c.cnt[length - 1]]

AdderInit(len) ==
    [a |-> Bits(0, len), b |-> Bits(0, len), s |-> Bits(0, len), c |-> Bits(0, len + 1)]

RegisterInit(length) ==
    [clk |-> 0, d_i |-> Bits(0, length), q_o |-> Bits(0, length)]

BlinkerInit(length) ==
    [clk |-> 0, led |-> 0, cnt |-> Bits(0, length), one |-> Bits(1, length),
     next_cnt |-> Bits(0, length), c |-> Bits(0, length + 1)]

\* ------------------------------------------------------------------ ramp

\* ramp_o.max of a bus of the given length
BusMax(length) == Pow2(length)

\* the block comparing against the top value itself instead of one below it
ramp_logic_late_turn(c, n, length) ==
    LET n1 == [n EXCEPT !.ramp_o = Wrap(c.ramp_o + c.delta, length)]
    IN  IF c.ramp_o = 1
        THEN [n1 EXCEPT !.delta = 1]
        ELSE IF c.ramp_o = BusMax(length) - 1
        THEN [n1 EXCEPT !.delta = Wrap(0 - 1, length)]
        ELSE IF c.delta = 0
        THEN [n1 EXCEPT !.delta = 1, !.ramp_o = 1]
        ELSE n1

\* the block turning upward only when it finds ramp_o at 0
ramp_logic_turns_at_zero(c, n, length) ==
    LET n1 == [n EXCEPT !.ramp_o = Wrap(c.ramp_o + c.delta, length)]
    IN  IF c.ramp_o = 0
        THEN [n1 EXCEPT !.delta = 1]
        ELSE IF c.ramp_o = BusMax(length) - 2
        THEN [n1 EXCEPT !.delta = Wrap(0 - 1, length)]
        ELSE IF c.delta = 0
        THEN [n1 EXCEPT !.delta = 1, !.ramp_o = 1]
        ELSE n1

ramp_logic(c, n, length) ==
    LET n1 == [n EXCEPT !.ramp_o = Wrap(c.ramp_o + c.delta, length)]
    IN  IF c.ramp_o = 1
        THEN [n1 EXCEPT !.delta = 1]
        ELSE IF c.ramp_o = BusMax(length) - 2
        THEN [n1 EXCEPT !.delta = Wrap(0 - 1, length)]
        ELSE IF c.delta = 0
        THEN [n1 EXCEPT !.delta = 1, !.ramp_o = 1]
        ELSE n1

RampInit == [clk |-> 0, ramp_o |-> 0, delta |-> 0]

\* ---------------------------------------------------------- pwm_simple

\* len(threshold): wax_wane passes the upper 4 bits of the ramp
PwmLen == 4

pwm_simple_cntr_logic(c, n, length) == [n EXCEPT !.cnt = Wrap(c.cnt + 1, length)]

pwm_simple_output_logic(c, n) ==
    [n EXCEPT !.pwm_o = IF c.cnt < c.threshold THEN 1 ELSE 0]

PwmInit(t) == [clk |-> 0, threshold |-> t, cnt |-> 0, pwm_o |-> 0]

\* ------------------------------------------------------------- block RAM

\* the block with the write no longer conditional on wr_i
ram_logic_always_writes(c, n) ==
    IF c.wr_i = 1
    THEN [n EXCEPT !.mem[c.addr_i] = c.data_i]
    ELSE [n EXCEPT !.mem[c.addr_i] = c.data_i, !.data_o = c.mem[c.addr_i]]

ram_logic(c, n) ==
    IF c.wr_i = 1
    THEN [n EXCEPT !.mem[c.addr_i] = c.data_i]
    ELSE [n EXCEPT !.data_o = c.mem[c.addr_i]]

simpler_ram_logic(c, n) ==
    LET n1 == IF c.wr_i = 1 THEN [n EXCEPT !.mem[c.addr_i] = c.data_i] ELSE n
    IN  [n1 EXCEPT !.data_o = c.mem[c.addr_i]]

\* the block reading the location after the write has been applied to it
dualport_ram_logic_write_first(c, n) ==
    LET n1 == IF c.wr_i = 1 THEN [n EXCEPT !.mem[c.wr_addr_i] = c.data_i] ELSE n
    IN  [n1 EXCEPT !.data_o = n1.mem[c.rd_addr_i]]

dualport_ram_logic(c, n) ==
    LET n1 == IF c.wr_i = 1 THEN [n EXCEPT !.mem[c.wr_addr_i] = c.data_i] ELSE n
    IN  [n1 EXCEPT !.data_o = c.mem[c.rd_addr_i]]

\* mem = [Bus(len(data_i)) for _ in range(2 ** len(addr_i))]
MemInit(addr_len) == [i \in 0..(Pow2(addr_len) - 1) |-> 0]

RamInit(addr_len) ==
    [clk |-> 0, wr_i |-> 0, addr_i |-> 0, data_i |-> 0, data_o |-> 0,
     mem |-> MemInit(addr_len)]

DualportRamInit(addr_len) ==
    [clk |-> 0, wr_i |-> 0, wr_addr_i |-> 0, rd_addr_i |-> 0, data_i |-> 0,
     data_o |-> 0, mem |-> MemInit(addr_len)]

RamDesigns == {"ram", "simpler_ram", "dualport_ram"}

\* history: no write edge yet
NoAddr == 0 - 1

\* the address a design writes at / reads from, in a signal record
WrAddr(d, c) == IF d = "dualport_ram" THEN c.wr_addr_i ELSE c.addr_i

RdAddr(d, c) == IF d = "dualport_ram" THEN c.rd_addr_i ELSE c.addr_i

\* ------------------------------------------------------ ram_test_bench

\* widths of wr_addr / rd_addr and of data_i / data_o in the scripted run
TbAddrLen == 8
TbDataLen == 8
\* for i in range(10)
TbWrites == 10

\* the bench reading two locations back instead of three
ram_test_bench_reads_two_back(i) ==
    [wr_i |-> 1,
     wr_addr_i |-> Wrap(i, TbAddrLen),
     data_i |-> Wrap(3 * i + 1, TbDataLen),
     rd_addr_i |-> Wrap(i - 2, TbAddrLen)]

\* what iteration i of the bench schedules before its clock pulse
ram_test_bench(i) ==
    [wr_i |-> 1,
     wr_addr_i |-> Wrap(i, TbAddrLen),
     data_i |-> Wrap(3 * i + 1, TbDataLen),
     rd_addr_i |-> Wrap(i - 3, TbAddrLen)]

\* ------------------------------------------- gen_reset, sample_en, record_play

gen_reset_logic(c, n) ==
    IF c.cntr < 1
    THEN [n EXCEPT !.cntr = Wrap(n.cntr + 1, 1), !.reset_o = 1]
    ELSE [n EXCEPT !.reset_o = 0]

\* rollover = int(ceil(frq_in / frq_sample)) - 1
Rollover(ratio) == ratio - 1

\* width of sample_en's cntr
SampleCntrLen(ratio) == CeilLog2(ratio)

\* the block with the return to zero at the rollover left out
sample_en_counter_no_rollover(c, n, ratio) ==
    LET n1 == [n EXCEPT !.cntr = Wrap(c.cntr + 1, SampleCntrLen(ratio)),
                        !.do_sample_o = 0]
    IN  IF c.cntr = Rollover(ratio)
        THEN [n1 EXCEPT !.do_sample_o = 1]
        ELSE n1

sample_en_counter(c, n, ratio) ==
    LET n1 == [n EXCEPT !.cntr = Wrap(c.cntr + 1, SampleCntrLen(ratio)),
                        !.do_sample_o = 0]
    IN  IF c.cntr = Rollover(ratio)
        THEN [n1 EXCEPT !.do_sample_o = 1, !.cntr = 0]
        ELSE n1

\* states of the record/playback controller
INIT == 0
WAITING_TO_RECORD == 1
RECORDING == 2
WAITING_TO_PLAY == 3
PLAYING == 4

\* concat(1, b, b, b, b)
Concat1(b) == 16 + 8 * b + 4 * b + 2 * b + b

\* the if/elif chain of fsm, applied to the scheduled values n0 that the
\* statements before it leave
record_play_fsm_branches(c, n0, addr_len) ==
        IF c.reset = 1
        THEN [n0 EXCEPT !.state = INIT]
        ELSE IF c.do_sample = 1
        THEN IF c.state = INIT
             THEN LET n1 == [n0 EXCEPT !.leds_o = 21]
                  IN  IF c.button_a = 1
                      THEN [n1 EXCEPT !.state = WAITING_TO_RECORD]
                      ELSE n1
             ELSE IF c.state = WAITING_TO_RECORD
             THEN LET n1 == [n0 EXCEPT !.leds_o = 26]
                  IN  IF c.button_a = 0
                      THEN [n1 EXCEPT !.addr = 0, !.data_i = c.button_b, !.wr = 1,
                                      !.state = RECORDING]
                      ELSE n1
             ELSE IF c.state = RECORDING
             THEN LET n1 == [n0 EXCEPT !.addr = Wrap(c.addr + 1, addr_len),
                                       !.data_i = c.button_b,
                                       !.wr = 1,
                                       !.leds_o = Concat1(c.button_b)]
                  IN  IF c.button_a = 1
                      THEN [n1 EXCEPT !.end_addr = Wrap(c.addr + 1, addr_len),
                                      !.state = WAITING_TO_PLAY]
                      ELSE n1
             ELSE IF c.state = WAITING_TO_PLAY
             THEN LET n1 == [n0 EXCEPT !.leds_o = 16]
                  IN  IF c.button_a = 0
                      THEN [n1 EXCEPT !.addr = 0, !.state = PLAYING]
                      ELSE n1
             ELSE IF c.state = PLAYING
             THEN LET n1 == [n0 EXCEPT !.leds_o = Concat1(c.data_o % 2),
                                       !.addr = Wrap(c.addr + 1, addr_len)]
                      n2 == IF c.addr = c.end_addr THEN [n1 EXCEPT !.addr = 0] ELSE n1
                  IN  IF c.button_a = 1
                      THEN [n2 EXCEPT !.state = WAITING_TO_RECORD]
                      ELSE n2
             ELSE n0
        ELSE n0

\* fsm with every signal it drives cleared at the start of the block
record_play_fsm_defaults_zero(c, n, addr_len) ==
    record_play_fsm_branches(c, [n EXCEPT !.wr = 0, !.state = 0, !.addr = 0,
                                          !.end_addr = 0, !.data_i = 0,
                                          !.leds_o = 0], addr_len)

record_play_fsm(c, n, addr_len) ==
    record_play_fsm_branches(c, [n EXCEPT !.wr = 0], addr_len)

\* gen_reset(clk_i, reset)
GenResetPorts(s) == [cntr |-> s.reset_cntr, reset_o |-> s.reset]

GenResetBind(s, r) == [s EXCEPT !.reset_cntr = r.cntr, !.reset = r.reset_o]

\* sample_en(clk_i, do_sample)
SampleEnPorts(s) == [cntr |-> s.sample_cntr, do_sample_o |-> s.do_sample]

SampleEnBind(s, r) == [s EXCEPT !.sample_cntr = r.cntr, !.do_sample = r.do_sample_o]

\* ram(clk_i, wr, addr, data_i, data_o)
RamPorts(s) ==
    [wr_i |-> s.wr, addr_i |-> s.addr, data_i |-> s.data_i, data_o |-> s.data_o,
     mem |-> s.mem]

RamBind(s, r) == [s EXCEPT !.data_o = r.data_o, !.mem = r.mem]

RecordPlayInit(addr_len) ==
    [clk |-> 0, button_a |-> 0, button_b |-> 0, leds_o |-> 0,
     reset |-> 0, reset_cntr |-> 0, do_sample |-> 0, sample_cntr |-> 0,
     wr |-> 0, addr |-> 0, end_addr |-> 0, data_i |-> 0, data_o |-> 0,
     mem |-> MemInit(addr_len), state |-> 0]

\* ---------------------------------------------------------- debouncer

\* width of debounce_cnt
DebounceCntLen(debounce_time) == CeilLog2(debounce_time + 1)

\* the block with the reload of the countdown on a changed input left out
debouncer_next_state_logic_no_reload(c, n, debounce_time) ==
    LET w  == DebounceCntLen(debounce_time)
        n1 == IF c.button_i = c.prev_button /\ c.debounce_cnt # 0
              THEN [n EXCEPT !.debounce_cnt = Wrap(c.debounce_cnt - 1, w)]
              ELSE n
    IN  [n1 EXCEPT !.prev_button = c.button_i]

debouncer_next_state_logic(c, n, debounce_time) ==
    LET w  == DebounceCntLen(debounce_time)
        n1 == IF c.button_i = c.prev_button
              THEN IF c.debounce_cnt # 0
                   THEN [n EXCEPT !.debounce_cnt = Wrap(c.debounce_cnt - 1, w)]
                   ELSE n
              ELSE [n EXCEPT !.debounce_cnt = Wrap(debounce_time, w)]
    IN  [n1 EXCEPT !.prev_button = c.button_i]

\* the block latching one count early
debouncer_output_logic_early(c, n) ==
    IF c.debounce_cnt <= 1
    THEN [n EXCEPT !.button_o = c.prev_button]
    ELSE n

\* the block with its reads taken from the next slots (immediate mutation)
debouncer_output_logic_reads_next(c, n) ==
    IF n.debounce_cnt = 0
    THEN [n EXCEPT !.button_o = n.prev_button]
    ELSE n

debouncer_output_logic(c, n) ==
    IF c.debounce_cnt = 0
    THEN [n EXCEPT !.button_o = c.prev_button]
    ELSE n

DebouncerInit ==
    [clk |-> 0, button_i |-> 0, button_o |-> 0, debounce_cnt |-> 0, prev_button |-> 0]

\* ---------------------------------------------------------- classic_fsm

\* fsm_state = State('A', 'B', 'C', 'D')
FsmStates == {"A", "B", "C", "D"}

\* reset_cnt = Bus(2)
ResetCntLen == 2

\* len(inputs_i)
FsmInputsLen == 2

\* debouncer instance k: its ports bound to inputs_i.o[k] and dbnc_inputs.i[k]
DebouncerPorts(k, s) ==
    [clk |-> s.clk, button_i |-> s.inputs[k], button_o |-> s.dbnc_inputs[k],
     debounce_cnt |-> s.debounce_cnt[k], prev_button |-> s.prev_button[k]]

\* the signals driven through instance k's ports written back into the netlist
DebouncerBind(k, s, r) ==
    [s EXCEPT !.dbnc_inputs[k] = r.button_o,
              !.debounce_cnt[k] = r.debounce_cnt,
              !.prev_button[k] = r.prev_button]

\* the block passing the level of the debounced inputs, not their changes
detect_chg_level(c, n) ==
    [n EXCEPT !.input_chgs = c.dbnc_inputs]

detect_chg(c, n) ==
    [n EXCEPT !.input_chgs =
        [k \in DOMAIN c.dbnc_inputs |-> And(c.dbnc_inputs[k], 1 - c.prev_inputs[k])]]

\* the block with the reset test one count too generous
classic_fsm_next_state_logic_reset_wraps(c, n) ==
    LET step(fwd, bck) ==
            IF c.input_chgs[0] = 1 THEN [n EXCEPT !.fsm_state = fwd]
            ELSE IF c.input_chgs[1] = 1 THEN [n EXCEPT !.fsm_state = bck]
            ELSE n
        n1 == IF c.reset_cnt < BusMax(ResetCntLen)
              THEN [n EXCEPT !.fsm_state = "A",
                             !.reset_cnt = Wrap(c.reset_cnt + 1, ResetCntLen)]
              ELSE IF c.fsm_state = "A" THEN step("B", "D")
              ELSE IF c.fsm_state = "B" THEN step("C", "A")
              ELSE IF c.fsm_state = "C" THEN step("D", "B")
              ELSE IF c.fsm_state = "D" THEN step("A", "C")
              ELSE [n EXCEPT !.fsm_state = "A"]
    IN  [n1 EXCEPT !.prev_inputs = c.dbnc_inputs]

\* the block testing input_chgs[1] before input_chgs[0]
classic_fsm_next_state_logic_backward_first(c, n) ==
    LET step(fwd, bck) ==
            IF c.input_chgs[1] = 1 THEN [n EXCEPT !.fsm_state = bck]
            ELSE IF c.input_chgs[0] = 1 THEN [n EXCEPT !.fsm_state = fwd]
            ELSE n
        n1 == IF c.reset_cnt < BusMax(ResetCntLen) - 1
              THEN [n EXCEPT !.fsm_state = "A",
                             !.reset_cnt = Wrap(c.reset_cnt + 1, ResetCntLen)]
              ELSE IF c.fsm_state = "A" THEN step("B", "D")
              ELSE IF c.fsm_state = "B" THEN step("C", "A")
              ELSE IF c.fsm_state = "C" THEN step("D", "B")
              ELSE IF c.fsm_state = "D" THEN step("A", "C")
              ELSE [n EXCEPT !.fsm_state = "A"]
    IN  [n1 EXCEPT !.prev_inputs = c.dbnc_inputs]

classic_fsm_next_state_logic(c, n) ==
    LET step(fwd, bck) ==
            IF c.input_chgs[0] = 1 THEN [n EXCEPT !.fsm_state = fwd]
            ELSE IF c.input_chgs[1] = 1 THEN [n EXCEPT !.fsm_state = bck]
            ELSE n
        n1 == IF c.reset_cnt < BusMax(ResetCntLen) - 1
              THEN [n EXCEPT !.fsm_state = "A",
                             !.reset_cnt = Wrap(c.reset_cnt + 1, ResetCntLen)]
              ELSE IF c.fsm_state = "A" THEN step("B", "D")
              ELSE IF c.fsm_state = "B" THEN step("C", "A")
              ELSE IF c.fsm_state = "C" THEN step("D", "B")
              ELSE IF c.fsm_state = "D" THEN step("A", "C")
              ELSE [n EXCEPT !.fsm_state = "A"]
    IN  [n1 EXCEPT !.prev_inputs = c.dbnc_inputs]

\* the block with the branch for state D left out
classic_fsm_output_logic_no_D(c, n) ==
    IF c.fsm_state = "A" THEN [n EXCEPT !.outputs_o = 1]
    ELSE IF c.fsm_state = "B" THEN [n EXCEPT !.outputs_o = 2]
    ELSE IF c.fsm_state = "C" THEN [n EXCEPT !.outputs_o = 4]
    ELSE [n EXCEPT !.outputs_o = 15]

classic_fsm_output_logic(c, n) ==
    IF c.fsm_state = "A" THEN [n EXCEPT !.outputs_o = 1]
    ELSE IF c.fsm_state = "B" THEN [n EXCEPT !.outputs_o = 2]
    ELSE IF c.fsm_state = "C" THEN [n EXCEPT !.outputs_o = 4]
    ELSE IF c.fsm_state = "D" THEN [n EXCEPT !.outputs_o = 8]
    ELSE [n EXCEPT !.outputs_o = 15]

ClassicFsmInit ==
    [clk |-> 0,
     inputs |-> Bits(0, FsmInputsLen),
     outputs_o |-> 0,
     fsm_state |-> "A",
     reset_cnt |-> 0,
     prev_inputs |-> Bits(0, FsmInputsLen),
     input_chgs |-> Bits(0, FsmInputsLen),
     dbnc_inputs |-> Bits(0, FsmInputsLen),
     debounce_cnt |-> [k \in 0..(FsmInputsLen - 1) |-> 0],
     prev_button |-> [k \in 0..(FsmInputsLen - 1) |-> 0]]

\* ------------------------------------------------- elaborated netlists

SeqBlocks(d) ==
    CASE d = "debouncer" -> {"next_state_logic", "output_logic"}
      [] d = "adder" -> {}
      [] d = "blinker" -> {<<"dff", k>> : k \in 0..(BlinkerLen - 1)}
      [] d = "ramp" -> {"logic"}
      [] d = "register" -> {<<"dff", k>> : k \in 0..(RegLen - 1)}
      [] d = "pwm_simple" -> {"cntr_logic"}
      [] d = "classic_fsm" ->
            {<<"debouncer.next_state_logic", k>> : k \in 0..(FsmInputsLen - 1)}
            \cup {<<"debouncer.output_logic", k>> : k \in 0..(FsmInputsLen - 1)}
            \cup {<<"next_state_logic", 0>>}
      [] d \in RamDesigns -> {"logic"}
      [] d = "ram_test_bench" -> {"logic"}
      [] d = "record_play" -> {"gen_reset.logic", "sample_en.counter", "ram.logic", "fsm"}

CombBlocks(d) ==
    CASE d = "debouncer" -> {}
      [] d = "adder" -> {<<"full_adder_bit", k>> : k \in 0..(AdderLen - 1)}
      [] d = "blinker" -> {<<"full_adder_bit", k>> : k \in 0..(BlinkerLen - 1)}
                              \cup {<<"output_logic", 0>>}
      [] d = "ramp" -> {}
      [] d = "register" -> {}
      [] d = "pwm_simple" -> {"output_logic"}
      [] d = "classic_fsm" -> {<<"detect_chg", 0>>, <<"output_logic", 0>>}
      [] d \in RamDesigns -> {}
      [] d = "ram_test_bench" -> {}
      [] d = "record_play" -> {}

\* one evaluation of logic block b: reads c (current), returns the next slots
RunBlock(d, b, c, n) ==
    CASE d = "debouncer" /\ b = "next_state_logic" ->
            debouncer_next_state_logic(c, n, DebounceTime)
      [] d = "debouncer" /\ b = "output_logic" ->
            debouncer_output_logic(c, n)
      [] d = "adder" ->
            LET r == adder(b[2], c.a, c.b, c.c, n.s, n.c)
            IN  [n EXCEPT !.s = r.s, !.c = r.c]
      [] d = "blinker" /\ b[1] = "full_adder_bit" ->
            LET r == adder(b[2], c.one, c.cnt, c.c, n.next_cnt, n.c)
            IN  [n EXCEPT !.next_cnt = r.s, !.c = r.c]
      [] d = "blinker" /\ b[1] = "dff" ->
            [n EXCEPT !.cnt = register(b[2], c.next_cnt, n.cnt)]
      [] d = "blinker" /\ b[1] = "output_logic" ->
            blinker_output_logic(c, n, BlinkerLen)
      [] d = "ramp" -> ramp_logic(c, n, RampLen)
      [] d = "register" -> [n EXCEPT !.q_o = register(b[2], c.d_i, n.q_o)]
      [] d = "pwm_simple" /\ b = "cntr_logic" -> pwm_simple_cntr_logic(c, n, PwmLen)
      [] d = "pwm_simple" /\ b = "output_logic" -> pwm_simple_output_logic(c, n)
      [] d = "classic_fsm" /\ b[1] = "debouncer.next_state_logic" ->
            DebouncerBind(b[2], n,
                debouncer_next_state_logic(DebouncerPorts(b[2], c),
                                           DebouncerPorts(b[2], n), FsmDebounceTime))
      [] d = "classic_fsm" /\ b[1] = "debouncer.output_logic" ->
            DebouncerBind(b[2], n,
                debouncer_output_logic(DebouncerPorts(b[2], c), DebouncerPorts(b[2], n)))
      [] d = "classic_fsm" /\ b[1] = "detect_chg" -> detect_chg(c, n)
      [] d = "classic_fsm" /\ b[1] = "next_state_logic" ->
            classic_fsm_next_state_logic(c, n)
      [] d = "classic_fsm" /\ b[1] = "output_logic" ->
            classic_fsm_output_logic(c, n)
      [] d = "ram" -> ram_logic(c, n)
      [] d = "simpler_ram" -> simpler_ram_logic(c, n)
      [] d = "dualport_ram" -> dualport_ram_logic(c, n)
      [] d = "ram_test_bench" -> dualport_ram_logic(c, n)
      [] d = "record_play" /\ b = "gen_reset.logic" ->
            GenResetBind(n, gen_reset_logic(GenResetPorts(c), GenResetPorts(n)))
      [] d = "record_play" /\ b = "sample_en.counter" ->
            SampleEnBind(n, sample_en_counter(SampleEnPorts(c), SampleEnPorts(n),
                                              SampleRatio))
      [] d = "record_play" /\ b = "ram.logic" ->
            RamBind(n, ram_logic(RamPorts(c), RamPorts(n)))
      [] d = "record_play" /\ b = "fsm" -> record_play_fsm(c, n, RecAddrLen)

\* the input values a test bench may drive before a clock pulse
Stimuli(d) ==
    CASE d = "debouncer" -> [button_i : Bit]
      [] d = "adder" -> [a : 0..(Pow2(AdderLen) - 1), b : 0..(Pow2(AdderLen) - 1)]
      [] d = "blinker" -> {[none |-> 0]}
      [] d = "ramp" -> {[none |-> 0]}
      [] d = "register" -> [d_i : 0..(Pow2(RegLen) - 1)]
      [] d = "pwm_simple" -> {[none |-> 0]}
      [] d = "classic_fsm" -> [inputs : 0..(Pow2(FsmInputsLen) - 1)]
      [] d \in {"ram", "simpler_ram"} ->
            [wr_i : Bit, addr_i : 0..(Pow2(RamAddrLen) - 1),
             data_i : 0..(Pow2(RamDataLen) - 1)]
      [] d = "dualport_ram" ->
            [wr_i : Bit, wr_addr_i : 0..(Pow2(RamAddrLen) - 1),
             rd_addr_i : 0..(Pow2(RamAddrLen) - 1),
             data_i : 0..(Pow2(RamDataLen) - 1)]
      [] d = "record_play" -> [button_a : Bit, button_b : Bit]
      [] d = "ram_test_bench" -> {ram_test_bench(i) : i \in 0..(TbWrites - 1)}

\* the driven inputs written into a signal record
Driven(d, s, in) ==
    CASE d = "debouncer" -> [s EXCEPT !.clk = 0, !.button_i = in.button_i]
      [] d = "adder" -> [s EXCEPT !.a = Bits(in.a, AdderLen), !.b = Bits(in.b, AdderLen)]
      [] d = "blinker" -> [s EXCEPT !.clk = 0]
      [] d = "ramp" -> [s EXCEPT !.clk = 0]
      [] d = "register" -> [s EXCEPT !.clk = 0, !.d_i = Bits(in.d_i, RegLen)]
      [] d = "pwm_simple" -> [s EXCEPT !.clk = 0]
      [] d = "classic_fsm" ->
            [s EXCEPT !.clk = 0, !.inputs = Bits(in.inputs, FsmInputsLen)]
      [] d \in {"ram", "simpler_ram"} ->
            [s EXCEPT !.clk = 0, !.wr_i = in.wr_i, !.addr_i = in.addr_i,
                      !.data_i = in.data_i]
      [] d \in {"dualport_ram", "ram_test_bench"} ->
            [s EXCEPT !.clk = 0, !.wr_i = in.wr_i, !.wr_addr_i = in.wr_addr_i,
                      !.rd_addr_i = in.rd_addr_i, !.data_i = in.data_i]
      [] d = "record_play" ->
            [s EXCEPT !.clk = 0, !.button_a = in.button_a, !.button_b = in.button_b]

\* clock pulses the test bench applies (clk_sim's num_cycles); free-running
\* benches never reach the saturated edge count plus one
TbCycles(d) ==
    CASE d = "blinker" -> NumCycles
      [] d = "ram_test_bench" -> TbWrites
      [] OTHER -> EdgeCap + 1

\* ------------------------------------------------------------ history

\* recorded when a rising edge starts, from the values sampled at that edge
ObserveEdge(d, c, o) ==
    LET e == Min(o.edges + 1, EdgeCap)
    IN  CASE d = "blinker" -> [o EXCEPT !.edges = o.edges + 1]
          [] d = "ram_test_bench" -> [o EXCEPT !.edges = o.edges + 1]
          [] d = "classic_fsm" ->
                [o EXCEPT !.edges = e,
                          !.dbncBefore = o.dbncLast,
                          !.dbncLast = c.dbnc_inputs]
          [] d = "ramp" ->
                [o EXCEPT !.edges = e, !.before = o.last, !.last = c.ramp_o,
                          !.t = (o.t + 1) % (2 * (BusMax(RampLen) - 1))]
          [] d = "pwm_simple" -> [o EXCEPT !.edges = e]
          [] d = "register" -> [o EXCEPT !.edges = e]
          [] d \in RamDesigns ->
                [o EXCEPT !.edges = e,
                          !.lastBefore = o.last,
                          !.wrBefore = o.wr,
                          !.wr = IF c.wr_i = 1 THEN WrAddr(d, c) ELSE o.wr,
                          !.last = IF c.wr_i = 1
                                   THEN [o.last EXCEPT ![WrAddr(d, c)] = c.data_i]
                                   ELSE o.last]
          [] d = "record_play" ->
            LET pulse == c.reset = 0 /\ c.do_sample = 1
                full == Len(o.rec) = Pow2(RecAddrLen)
            IN  [o EXCEPT
                  !.edges = e,
                  !.t = (o.t + 1) % (Rollover(SampleRatio) + 1),
                  !.rec = IF pulse /\ c.state = WAITING_TO_RECORD /\ c.button_a = 0
                          THEN <<c.button_b>>
                          ELSE IF pulse /\ c.state = RECORDING /\ ~full /\ ~o.ovf
                          THEN Append(o.rec, c.button_b)
                          ELSE IF c.state \in {INIT, WAITING_TO_RECORD}
                                  \/ (pulse /\ c.state = RECORDING)
                          THEN <<>>
                          ELSE o.rec,
                  !.ovf = IF c.reset = 1 THEN FALSE
                          ELSE IF pulse /\ c.state = WAITING_TO_RECORD /\ c.button_a = 0
                          THEN FALSE
                          ELSE IF pulse /\ c.state = RECORDING /\ full
                          THEN TRUE
                          ELSE o.ovf,
                  !.k = IF pulse /\ c.state = PLAYING /\ o.playPulse /\ ~o.ovf
                        THEN (o.k + 1) % Len(o.rec)
                        ELSE IF c.state = PLAYING
                        THEN o.k
                        ELSE 0,
                  !.playPulse = IF c.state = PLAYING
                                THEN pulse \/ o.playPulse
                                ELSE FALSE,
                  !.atPulse = pulse]
          [] d = "debouncer" ->
            [o EXCEPT !.edges = e,
                      !.stableBefore = o.stable,
                      !.bounces = IF c.button_i # c.prev_button
                                  THEN Min(o.bounces + 1, DebounceTime)
                                  ELSE 0,
                      !.lastBounces = IF c.button_i # c.prev_button
                                      THEN o.lastBounces
                                      ELSE IF o.bounces > 0 THEN o.bounces
                                      ELSE o.lastBounces,
                      !.stable = IF c.button_i = c.prev_button
                                 THEN Min(o.stable + 1, DebounceTime + 2)
                                 ELSE 0]

\* ---------------------------------------------------------- scheduler

\* test bench of a clockless design: inputs.next = in; yield delay(1)
Drive(in) ==
    /\ phase = "idle"
    /\ cur' = Driven(design, cur, in)
    /\ nxt' = Driven(design, nxt, in)
    /\ pend' = CombBlocks(design)
    /\ phase' = IF CombBlocks(design) = {} THEN "idle" ELSE "settle"
    /\ UNCHANGED <<design, tb, pre, obs>>

\* test bench: inputs.next = in; clk.next = 0; yield delay(1)
ClkLow(in) ==
    /\ phase = "idle"
    /\ tb = "low"
    /\ obs.edges < TbCycles(design)
    /\ cur' = Driven(design, cur, in)
    /\ nxt' = Driven(design, nxt, in)
    /\ tb' = "high"
    /\ pend' = CombBlocks(design)
    /\ phase' = IF CombBlocks(design) = {} THEN "idle" ELSE "settle"
    /\ UNCHANGED <<design, pre, obs>>

\* test bench: clk.next = 1; yield delay(1) -- every posedge block is triggered
ClkHigh ==
    /\ phase = "idle"
    /\ tb = "high"
    /\ cur' = [cur EXCEPT !.clk = 1]
    /\ nxt' = [nxt EXCEPT !.clk = 1]
    /\ pre' = cur
    /\ obs' = ObserveEdge(design, cur, obs)
    /\ tb' = "low"
    /\ pend' = SeqBlocks(design)
    /\ phase' = "edge"
    /\ UNCHANGED design

\* one triggered sequential block runs, in any order
SeqEval(b) ==
    /\ phase = "edge"
    /\ b \in pend
    /\ nxt' = RunBlock(design, b, cur, nxt)
    /\ pend' = pend \ {b}
    /\ UNCHANGED <<design, cur, phase, tb, pre, obs>>

\* all sequential blocks of the edge have run: the next values become current
Commit ==
    /\ phase = "edge"
    /\ pend = {}
    /\ cur' = nxt
    /\ pend' = CombBlocks(design)
    /\ phase' = IF CombBlocks(design) = {} THEN "idle" ELSE "settle"
    /\ UNCHANGED <<design, nxt, tb, pre, obs>>

\* one combinational block of the round runs, in any order
CombEval(b) ==
    /\ phase = "settle"
    /\ b \in pend
    /\ nxt' = RunBlock(design, b, cur, nxt)
    /\ pend' = pend \ {b}
    /\ UNCHANGED <<design, cur, phase, tb, pre, obs>>

\* end of a round: commit, and go round again unless nothing changed
CombCommit ==
    /\ phase = "settle"
    /\ pend = {}
    /\ cur' = nxt
    /\ IF nxt = cur
       THEN phase' = "idle" /\ pend' = {}
       ELSE phase' = "settle" /\ pend' = CombBlocks(design)
    /\ UNCHANGED <<design, nxt, tb, pre, obs>>

\* a rising edge has been processed and its values are committed
AfterEdge == obs.edges > 0 /\ phase # "edge"

\* ------------------------------------------------------ adder, stand-alone

InitAdder ==
    /\ design = "adder"
    /\ cur = AdderInit(AdderLen)
    /\ nxt = AdderInit(AdderLen)
    /\ phase = "settle"
    /\ pend = CombBlocks("adder")
    /\ tb = "low"
    /\ pre = AdderInit(AdderLen)
    /\ obs = [edges |-> 0]

NextAdder ==
    \/ \E in \in Stimuli("adder") : Drive(in)
    \/ \E b \in CombBlocks("adder") : CombEval(b)
    \/ CombCommit

SpecAdder == InitAdder /\ [][NextAdder]_vars

\* C3 (combinational fixed point): whenever the stage blocks have settled,
\* in whatever order they ran, s_o = (a+b) mod 2^n and c[n] = (a+b) >> n.
C3_AdderFixedPoint ==
    phase = "idle" =>
        LET sum == BusVal(cur.a) + BusVal(cur.b)
        IN  /\ BusVal(cur.s) = sum % Pow2(AdderLen)
            /\ cur.c[AdderLen] = sum \div Pow2(AdderLen)
            /\ cur.c[0] = 0

\* settled with a carry that rippled through every stage
C3_Witness ==
    /\ phase = "idle"
    /\ BusVal(cur.a) = Pow2(AdderLen) - 1
    /\ BusVal(cur.b) = 1
    /\ BusVal(cur.s) = 0
    /\ cur.c[AdderLen] = 1

\* ------------------------------------------------------------- blinker

InitBlinker ==
    /\ design = "blinker"
    /\ cur = BlinkerInit(BlinkerLen)
    /\ nxt = BlinkerInit(BlinkerLen)
    /\ phase = "settle"
    /\ pend = CombBlocks("blinker")
    /\ tb = "low"
    /\ pre = BlinkerInit(BlinkerLen)
    /\ obs = [edges |-> 0]

NextBlinker ==
    \/ \E in \in Stimuli("blinker") : ClkLow(in)
    \/ ClkHigh
    \/ \E b \in SeqBlocks("blinker") : SeqEval(b)
    \/ Commit
    \/ \E b \in CombBlocks("blinker") : CombEval(b)
    \/ CombCommit

SpecBlinker == InitBlinker /\ [][NextBlinker]_vars

\* C2 (3-bit counter over 16 edges): after e rising edges, settled, the
\* counter holds e mod 8 -- 0,1,...,7,0,1,...,7 -- and led is its top bit,
\* which toggles every 4 edges.
C2_CounterSequence ==
    phase = "idle" =>
        /\ obs.edges <= NumCycles
        /\ BusVal(cur.cnt) = obs.edges % 8
        /\ cur.led = (obs.edges \div 4) % 2

\* the counter has wrapped once and counted up to 7 again, led high
C2_Witness ==
    /\ phase = "idle"
    /\ obs.edges = NumCycles - 1
    /\ BusVal(cur.cnt) = 7
    /\ cur.led = 1

\* ---------------------------------------------------------------- ramp

InitRamp ==
    /\ design = "ramp"
    /\ cur = RampInit
    /\ nxt = RampInit
    /\ phase = "idle"
    /\ pend = {}
    /\ tb = "low"
    /\ pre = RampInit
    /\ obs = [edges |-> 0, before |-> 0, last |-> 0, t |-> 0]

NextRamp ==
    \/ \E in \in Stimuli("ramp") : ClkLow(in)
    \/ ClkHigh
    \/ \E b \in SeqBlocks("ramp") : SeqEval(b)
    \/ Commit

SpecRamp == InitRamp /\ [][NextRamp]_vars

\* C4 as stated: the first edge moves ramp_o to 1 and from then on the
\* triangle wave turns at max-2 (top) and at 1 (bottom), so it stays
\* between those two values.
C4_Original ==
    AfterEdge =>
        /\ (obs.edges = 1 => cur.ramp_o = 1)
        /\ cur.ramp_o >= 1
        /\ cur.ramp_o <= BusMax(RampLen) - 2

\* C4 (triangle wave), amended: the first edge moves ramp_o from 0 to 1;
\* from then on ramp_o moves by one at every edge, keeps rising until it is
\* max-1, keeps falling until it is 0, and reverses exactly there: the
\* turning points are max-1 and 0, one step past the compare values.
C4_TriangleWave ==
    AfterEdge =>
        /\ (obs.edges = 1 => pre.ramp_o = 0 /\ cur.ramp_o = 1)
        /\ (obs.edges > 1 /\ pre.ramp_o > obs.before =>
                cur.ramp_o = (IF pre.ramp_o = BusMax(RampLen) - 1
                              THEN pre.ramp_o - 1 ELSE pre.ramp_o + 1))
        /\ (obs.edges > 1 /\ pre.ramp_o < obs.before =>
                cur.ramp_o = (IF pre.ramp_o = 0
                              THEN pre.ramp_o + 1 ELSE pre.ramp_o - 1))
        /\ (obs.edges > 1 => pre.ramp_o # obs.before)

\* edges in one period of the wave: up from 0 to max-1 and back down
RampPeriod == 2 * (BusMax(RampLen) - 1)

\* the triangle 0, 1, ..., 62, 63, 62, ..., 1 at position t of the period
Triangle(t) == IF t <= BusMax(RampLen) - 1 THEN t ELSE RampPeriod - t

\* C17: with the 6-bit ramp, where delta = -1 is stored as 63 and the
\* addition wraps modulo 64, ramp_o after the e-th edge is the triangle
\* 0, 1, ..., 62, 63, 62, ..., 1, 0, 1, ... at position e mod 126 (obs.t):
\* it peaks at 63, bottoms at 0, repeats every 126 edges and moves by
\* exactly +1 or -1 modulo 64 at every edge.
C17_RampSequence ==
    /\ cur.ramp_o \in 0..(BusMax(RampLen) - 1)
    /\ AfterEdge =>
           /\ cur.ramp_o = Triangle(obs.t)
           /\ pre.ramp_o = Triangle((obs.t + RampPeriod - 1) % RampPeriod)
           /\ \/ cur.ramp_o = Wrap(pre.ramp_o + 1, RampLen)
              \/ cur.ramp_o = Wrap(pre.ramp_o - 1, RampLen)
           /\ (cur.ramp_o = BusMax(RampLen) - 1) <=> (obs.t = BusMax(RampLen) - 1)
           /\ (cur.ramp_o = 0) <=> (obs.t = 0)

\* the wave is back at 0 after a whole period, coming down from 1 with
\* delta = 63
C17_Witness ==
    /\ AfterEdge
    /\ obs.t = 0
    /\ pre.ramp_o = 1
    /\ pre.delta = BusMax(RampLen) - 1
    /\ cur.ramp_o = 0
    /\ cur.delta = 1

\* the wave has just turned at the top, one step past the compare value
C4_Witness ==
    /\ AfterEdge
    /\ obs.before = BusMax(RampLen) - 2
    /\ pre.ramp_o = BusMax(RampLen) - 1
    /\ cur.ramp_o = BusMax(RampLen) - 2

\* ----------------------------------------------------------- block RAMs

InitRam ==
    /\ design \in RamDesigns
    /\ cur = (IF design = "dualport_ram" THEN DualportRamInit(RamAddrLen)
              ELSE RamInit(RamAddrLen))
    /\ nxt = cur
    /\ phase = "idle"
    /\ pend = {}
    /\ tb = "low"
    /\ pre = cur
    /\ obs = [edges |-> 0, last |-> MemInit(RamAddrLen),
              lastBefore |-> MemInit(RamAddrLen), wr |-> NoAddr, wrBefore |-> NoAddr]

NextRam ==
    \/ \E in \in Stimuli(design) : ClkLow(in)
    \/ ClkHigh
    \/ \E b \in SeqBlocks(design) : SeqEval(b)
    \/ Commit

SpecRam == InitRam /\ [][NextRam]_vars

\* the last edge read the RAM (ram reads only with wr_i low)
ReadEdge == AfterEdge /\ (design = "ram" => pre.wr_i = 0)

\* C7 (RAM round trip): every location holds the value of the latest write
\* to it, whatever was written elsewhere since, and an edge that reads
\* address i puts on data_o the value written to i by the latest earlier
\* write edge (obs.last is the history of written values, 0 before any;
\* obs.wr the address of the latest write edge).
C7_RamRoundTrip ==
    AfterEdge =>
        /\ \A i \in DOMAIN cur.mem : cur.mem[i] = obs.last[i]
        /\ (ReadEdge => cur.data_o = obs.lastBefore[RdAddr(design, pre)])

\* a 1 written to address i is read back after a later write to another address
C7_Witness ==
    /\ ReadEdge
    /\ design = "ram"
    /\ obs.wrBefore # NoAddr
    /\ obs.wrBefore # pre.addr_i
    /\ obs.lastBefore[pre.addr_i] = 1
    /\ cur.data_o = 1

\* C8 (read during write): in simpler_ram and dualport_ram data_o after an
\* edge is the pre-edge content of the read-addressed location, with or
\* without a write at that edge to the same or another address; the written
\* value is in the location after the edge, for a later read.
C8_ReadBeforeWrite ==
    (AfterEdge /\ design \in {"simpler_ram", "dualport_ram"}) =>
        /\ cur.data_o = pre.mem[RdAddr(design, pre)]
        /\ (pre.wr_i = 1 => cur.mem[WrAddr(design, pre)] = pre.data_i)
        /\ \A i \in DOMAIN cur.mem :
               (pre.wr_i = 0 \/ i # WrAddr(design, pre)) => cur.mem[i] = pre.mem[i]

\* dual-port read and write of one location at one edge: the old value is read
C8_Witness ==
    /\ AfterEdge
    /\ design = "dualport_ram"
    /\ pre.wr_i = 1
    /\ pre.wr_addr_i = pre.rd_addr_i
    /\ pre.data_i # pre.mem[pre.rd_addr_i]
    /\ cur.data_o = pre.mem[pre.rd_addr_i]
    /\ cur.mem[pre.rd_addr_i] = pre.data_i

\* ---------------------------------------------------------- classic_fsm

InitClassicFsm ==
    /\ design = "classic_fsm"
    /\ cur = ClassicFsmInit
    /\ nxt = ClassicFsmInit
    /\ phase = "settle"
    /\ pend = CombBlocks("classic_fsm")
    /\ tb = "low"
    /\ pre = ClassicFsmInit
    /\ obs = [edges |-> 0,
              dbncBefore |-> Bits(0, FsmInputsLen),
              dbncLast |-> Bits(0, FsmInputsLen)]

NextClassicFsm ==
    \/ \E in \in Stimuli("classic_fsm") : ClkLow(in)
    \/ ClkHigh
    \/ \E b \in SeqBlocks("classic_fsm") : SeqEval(b)
    \/ Commit
    \/ \E b \in CombBlocks("classic_fsm") : CombEval(b)
    \/ CombCommit

SpecClassicFsm == InitClassicFsm /\ [][NextClassicFsm]_vars

\* the ring A -> B -> C -> D -> A
RingNext(st) ==
    CASE st = "A" -> "B" [] st = "B" -> "C" [] st = "C" -> "D" [] st = "D" -> "A"

RingPrev(st) ==
    CASE st = "A" -> "D" [] st = "B" -> "A" [] st = "C" -> "B" [] st = "D" -> "C"

\* the reset counter was already saturated before the last edge
PastReset == pre.reset_cnt = BusMax(ResetCntLen) - 1

\* C18: every edge that finds the reset counter saturated moves fsm_state
\* one step forward on the ring when the pre-edge input_chgs[0] is 1, else
\* one step backward when input_chgs[1] is 1, and leaves it where it was
\* when both are 0; with both at 1 the step is forward.
C18_RingTransitions ==
    (AfterEdge /\ PastReset) =>
        cur.fsm_state =
            (IF pre.input_chgs[0] = 1 THEN RingNext(pre.fsm_state)
             ELSE IF pre.input_chgs[1] = 1 THEN RingPrev(pre.fsm_state)
             ELSE pre.fsm_state)

\* both change bits were high in state D: the step is forward, around to A
C18_Witness ==
    /\ AfterEdge
    /\ PastReset
    /\ pre.input_chgs[0] = 1
    /\ pre.input_chgs[1] = 1
    /\ pre.fsm_state = "D"
    /\ cur.fsm_state = "A"

\* debounced input k went from 0 to 1 at the edge before the last one
Rose(k) == obs.dbncBefore[k] = 0 /\ pre.dbnc_inputs[k] = 1

\* C19: in every settled state after an edge, input_chgs[k] is 1 exactly
\* when debounced input k went from 0 to 1 at that edge, so it is high for
\* the one clock cycle that follows the change.  fsm_state therefore moves
\* only at the edge after a 0 to 1 change of a debounced input, by one ring
\* step (forward if input 0 rose, else backward); it does not move again
\* while the input stays high, nor when an input goes from 1 to 0.  No
\* debounced input rises while the reset counter is still counting.
C19_EdgeDetection ==
    (obs.edges > 0 /\ phase = "idle") =>
        /\ \A k \in 0..(FsmInputsLen - 1) :
               (cur.input_chgs[k] = 1) <=>
                   (pre.dbnc_inputs[k] = 0 /\ cur.dbnc_inputs[k] = 1)
        /\ PastReset =>
               cur.fsm_state =
                   (IF Rose(0) THEN RingNext(pre.fsm_state)
                    ELSE IF Rose(1) THEN RingPrev(pre.fsm_state)
                    ELSE pre.fsm_state)
        /\ ~PastReset =>
               /\ cur.fsm_state = "A"
               /\ \A k \in 0..(FsmInputsLen - 1) : ~Rose(k)

\* debounced input 0 rose two edges ago and is still high, input 1 has just
\* fallen: the state stepped once, from B to C, and now stays at C
C19_Witness ==
    /\ obs.edges > 0
    /\ phase = "idle"
    /\ PastReset
    /\ obs.dbncBefore[0] = 1 /\ pre.dbnc_inputs[0] = 1 /\ cur.dbnc_inputs[0] = 1
    /\ obs.dbncBefore[1] = 1 /\ pre.dbnc_inputs[1] = 0
    /\ pre.fsm_state = "C"
    /\ cur.fsm_state = "C"
    /\ cur.input_chgs[0] = 0

\* the Moore output of each state
MooreOutput(st) ==
    CASE st = "A" -> 1 [] st = "B" -> 2 [] st = "C" -> 4 [] st = "D" -> 8

\* C9 (state set, Moore outputs): fsm_state, current and scheduled, is always
\* one of A, B, C, D; once the combinational blocks have settled outputs_o is
\* the one-hot code of the current state alone; the fallback output 0b1111
\* never appears.
C9_StateSetAndMooreOutputs ==
    /\ cur.fsm_state \in FsmStates
    /\ nxt.fsm_state \in FsmStates
    /\ cur.outputs_o # 15
    /\ nxt.outputs_o # 15
    /\ (phase = "idle" => cur.outputs_o = MooreOutput(cur.fsm_state))

\* settled in state D, reached through the inputs, with its own output
C9_Witness ==
    /\ phase = "idle"
    /\ cur.fsm_state = "D"
    /\ cur.outputs_o = 8
    /\ cur.inputs = Bits(0, FsmInputsLen)

\* C10 (reset counter): after each of the first three rising edges reset_cnt
\* equals the number of edges and the state is A whatever the inputs were;
\* from the third edge on reset_cnt stays 3; the state register moves only
\* at an edge that found reset_cnt = 3.
C10_ResetCounter ==
    phase # "edge" =>
        /\ (obs.edges <= 3 => cur.reset_cnt = obs.edges /\ cur.fsm_state = "A")
        /\ (obs.edges >= 3 => cur.reset_cnt = 3)
        /\ (cur.fsm_state # pre.fsm_state => pre.reset_cnt = 3 /\ obs.edges > 3)

\* the reset count has elapsed and an input change has moved the state
C10_Witness ==
    /\ AfterEdge
    /\ pre.reset_cnt = 3
    /\ cur.reset_cnt = 3
    /\ pre.fsm_state = "A"
    /\ cur.fsm_state = "B"

\* ------------------------------------------------- register, stand-alone

InitRegister ==
    /\ design = "register"
    /\ cur = RegisterInit(RegLen)
    /\ nxt = RegisterInit(RegLen)
    /\ phase = "idle"
    /\ pend = {}
    /\ tb = "low"
    /\ pre = RegisterInit(RegLen)
    /\ obs = [edges |-> 0]

NextRegister ==
    \/ \E in \in Stimuli("register") : ClkLow(in)
    \/ ClkHigh
    \/ \E b \in SeqBlocks("register") : SeqEval(b)
    \/ Commit

SpecRegister == InitRegister /\ [][NextRegister]_vars

\* C16: the register of RegLen independent dffs behaves as one atomic
\* register.  While the dffs of an edge are being evaluated, in whatever
\* order, q_o still shows its pre-edge value in every bit; once the edge is
\* done q_o equals the pre-edge d_i in all bit positions, and it keeps that
\* value until the next edge whatever d_i does meanwhile.
C16_AtomicRegister ==
    (design = "register") =>
        /\ (phase = "edge") => (cur.q_o = pre.q_o)
        /\ AfterEdge =>
               /\ cur.q_o = pre.d_i
               /\ BusVal(cur.q_o) = BusVal(pre.d_i)
        /\ (obs.edges = 0) => (BusVal(cur.q_o) = 0)

\* after an edge that changed several bits at once, with d_i already driven
\* to something else
C16_Witness ==
    /\ AfterEdge
    /\ design = "register"
    /\ tb = "high"
    /\ BusVal(pre.q_o) = 5
    /\ BusVal(pre.d_i) = 2
    /\ BusVal(cur.q_o) = 2
    /\ BusVal(cur.d_i) = 7

\* ------------------------------------------- the scripted simulations

\* the run of blinker.py or the run of block_ram.py
InitScripted ==
    \/ InitBlinker
    \/ /\ design = "ram_test_bench"
       /\ cur = DualportRamInit(TbAddrLen)
       /\ nxt = DualportRamInit(TbAddrLen)
       /\ phase = "idle"
       /\ pend = {}
       /\ tb = "low"
       /\ pre = DualportRamInit(TbAddrLen)
       /\ obs = [edges |-> 0]

\* the bench applies the stimulus of its current iteration
NextScripted ==
    \/ \E in \in Stimuli(design) :
          /\ design = "ram_test_bench" => in = ram_test_bench(obs.edges)
          /\ ClkLow(in)
    \/ ClkHigh
    \/ \E b \in SeqBlocks(design) : SeqEval(b)
    \/ Commit
    \/ \E b \in CombBlocks(design) : CombEval(b)
    \/ CombCommit

SpecScripted == InitScripted /\ [][NextScripted]_vars

\* C14: in the scripted run of dualport_ram, data_o after the rising edge of
\* iteration i is 3 * (i - 3) + 1 for i in 3..9 -- the value written three
\* iterations earlier -- and 0 for i in 0..2.
C14_TestBenchReadback ==
    (AfterEdge /\ design = "ram_test_bench") =>
        LET i == obs.edges - 1
        IN  /\ i \in 0..9
            /\ cur.data_o = (IF i >= 3 THEN 3 * (i - 3) + 1 ELSE 0)

\* the last iteration: 3 * (9 - 3) + 1 = 19 is read while 28 is written
C14_Witness ==
    /\ AfterEdge
    /\ design = "ram_test_bench"
    /\ phase = "idle"
    /\ obs.edges = 10
    /\ cur.data_o = 19
    /\ cur.mem[9] = 28

\* ---------------------------------------------------------- pwm_simple

\* the threshold is any constant of its width
InitPwm ==
    /\ design = "pwm_simple"
    /\ \E t \in 0..(Pow2(PwmLen) - 1) :
          /\ cur = PwmInit(t)
          /\ nxt = PwmInit(t)
          /\ pre = PwmInit(t)
    /\ phase = "settle"
    /\ pend = CombBlocks("pwm_simple")
    /\ tb = "low"
    /\ obs = [edges |-> 0]

NextPwm ==
    \/ \E in \in Stimuli("pwm_simple") : ClkLow(in)
    \/ ClkHigh
    \/ \E b \in SeqBlocks("pwm_simple") : SeqEval(b)
    \/ Commit
    \/ \E b \in CombBlocks("pwm_simple") : CombEval(b)
    \/ CombCommit

SpecPwm == InitPwm /\ [][NextPwm]_vars

\* the settled states: no block is waiting to run
PwmSettled == design = "pwm_simple" /\ phase = "idle"

\* C13: with a constant threshold t, the settled pwm_o is high from cnt = 0
\* until cnt > t and low for the rest of the counter period, that is, high
\* exactly while cnt <= t.
C13_DocumentedPwm ==
    PwmSettled => ((cur.pwm_o = 1) <=> (cur.cnt <= cur.threshold))

\* ---------------------------------------------------------- record_play

InitRecordPlay ==
    /\ design = "record_play"
    /\ cur = RecordPlayInit(RecAddrLen)
    /\ nxt = RecordPlayInit(RecAddrLen)
    /\ phase = "idle"
    /\ pend = {}
    /\ tb = "low"
    /\ pre = RecordPlayInit(RecAddrLen)
    /\ obs = [edges |-> 0, t |-> 0, rec |-> <<>>, ovf |-> FALSE, k |-> 0,
              playPulse |-> FALSE, atPulse |-> FALSE]

NextRecordPlay ==
    \/ \E in \in Stimuli("record_play") : ClkLow(in)
    \/ ClkHigh
    \/ \E b \in SeqBlocks("record_play") : SeqEval(b)
    \/ Commit

SpecRecordPlay == InitRecordPlay /\ [][NextRecordPlay]_vars

\* C12: do_sample is high after exactly the edges whose number is a multiple
\* of rollover + 1 (obs.t counts the edges modulo rollover + 1), so it is high
\* for one clock cycle in every rollover + 1 consecutive cycles and low in the
\* others; cntr stays within 0..rollover and is 0 after every edge that found
\* it equal to rollover.
C12_SamplePulse ==
    (AfterEdge /\ design = "record_play") =>
        /\ cur.sample_cntr \in 0..Rollover(SampleRatio)
        /\ cur.sample_cntr = obs.t
        /\ (cur.do_sample = 1) <=> (obs.t = 0)
        /\ (cur.do_sample = 1) => (pre.do_sample = 0)
        /\ (pre.sample_cntr = Rollover(SampleRatio)) => (cur.sample_cntr = 0)

C12_Witness ==
    /\ AfterEdge
    /\ design = "record_play"
    /\ cur.do_sample = 1
    /\ pre.sample_cntr = Rollover(SampleRatio)
    /\ cur.sample_cntr = 0
    /\ cur.state = PLAYING

\* ------------------------------------------------ debouncer, stand-alone

InitDebouncer ==
    /\ design = "debouncer"
    /\ cur = DebouncerInit
    /\ nxt = DebouncerInit
    /\ phase = "idle"
    /\ pend = {}
    /\ tb = "low"
    /\ pre = DebouncerInit
    /\ obs = [edges |-> 0, stable |-> 0, stableBefore |-> 0,
              bounces |-> 0, lastBounces |-> 0]

NextDebouncer ==
    \/ \E in \in Stimuli("debouncer") : ClkLow(in)
    \/ ClkHigh
    \/ \E b \in SeqBlocks("debouncer") : SeqEval(b)
    \/ Commit

SpecDebouncer == InitDebouncer /\ [][NextDebouncer]_vars

\* C1 (simultaneity): after every rising edge the debouncer's registers hold
\* the values determined by the pre-edge signals alone -- output_logic sees the
\* pre-edge debounce_cnt and prev_button although next_state_logic writes both
\* at the same edge -- whatever order the two blocks were evaluated in.
C1_Simultaneity ==
    AfterEdge =>
        /\ cur.prev_button = pre.button_i
        /\ cur.debounce_cnt =
               (IF pre.button_i # pre.prev_button THEN DebounceTime
                ELSE IF pre.debounce_cnt # 0 THEN pre.debounce_cnt - 1
                ELSE pre.debounce_cnt)
        /\ cur.button_o =
               (IF pre.debounce_cnt = 0 THEN pre.prev_button ELSE pre.button_o)

\* an edge at which next_state_logic rewrote both signals output_logic read
C1_Witness ==
    /\ AfterEdge
    /\ pre.debounce_cnt = 0
    /\ pre.button_i # pre.prev_button
    /\ pre.prev_button # pre.button_o
    /\ cur.button_o = pre.prev_button
    /\ cur.prev_button # pre.prev_button
    /\ cur.debounce_cnt = DebounceTime

\* C5 (bouncing input): button_o changes at an edge only when at least
\* debounce_time edges with an unchanged input have passed since the last
\* edge that saw a toggle; it never changes at an edge whose pre-edge
\* debounce_cnt is nonzero; and every edge at which button_i differs from
\* prev_button reloads debounce_cnt with debounce_time.
C5_NoChangeWhileBouncing ==
    AfterEdge =>
        /\ (cur.button_o # pre.button_o => obs.stableBefore >= DebounceTime)
        /\ (pre.debounce_cnt # 0 => cur.button_o = pre.button_o)
        /\ (pre.button_i # pre.prev_button => cur.debounce_cnt = DebounceTime)

\* the output changes after a run of two or more toggling edges (k < threshold)
\* followed by a steady input
C5_Witness ==
    /\ AfterEdge
    /\ obs.lastBounces >= 2
    /\ obs.lastBounces < DebounceTime
    /\ obs.stableBefore >= DebounceTime
    /\ cur.button_o # pre.button_o

\* C6 as stated: once the input has been held for debounce_time edges after
\* the edge that first sampled the new value, button_o equals it.
C6_Original ==
    (AfterEdge /\ obs.stable = DebounceTime) => cur.button_o = pre.button_i

\* C6 (steady input), amended: a new value that stays unchanged over the
\* debounce_time edges following the edge that first sampled it reaches
\* button_o at the next edge, the (debounce_time + 1)-th after the first
\* sampling edge, not earlier and not later: button_o changes only at such an
\* edge, and after it button_o equals the held value.
C6_SteadyLatency ==
    AfterEdge =>
        /\ (cur.button_o # pre.button_o => obs.stableBefore = DebounceTime)
        /\ (obs.stableBefore >= DebounceTime => cur.button_o = pre.prev_button)
        /\ (obs.stable >= DebounceTime + 1 => cur.button_o = pre.button_i)

\* the edge at which a held new value reaches the output
C6_Witness ==
    /\ AfterEdge
    /\ obs.stable = DebounceTime + 1
    /\ cur.button_o # pre.button_o
    /\ cur.button_o = pre.button_i

\* ------------------------------------------ debouncer or record_play

InitHold == InitDebouncer \/ InitRecordPlay

NextHold ==
    \/ \E in \in Stimuli(design) : ClkLow(in)
    \/ ClkHigh
    \/ \E b \in SeqBlocks(design) : SeqEval(b)
    \/ Commit

SpecHold == InitHold /\ [][NextHold]_vars

\* C11: a signal that the taken branch of its sequential block does not
\* assign keeps its pre-edge value.  The debouncer's button_o is unchanged
\* by every edge before which debounce_cnt is nonzero; in record_play every
\* edge before which reset and do_sample are both low leaves state, addr,
\* end_addr, data_i and leds_o unchanged and drives wr to 0.
C11_HoldLastValue ==
    AfterEdge =>
        /\ (design = "debouncer" /\ pre.debounce_cnt # 0) =>
               cur.button_o = pre.button_o
        /\ (design = "record_play" /\ pre.reset = 0 /\ pre.do_sample = 0) =>
               /\ cur.state = pre.state
               /\ cur.addr = pre.addr
               /\ cur.end_addr = pre.end_addr
               /\ cur.data_i = pre.data_i
               /\ cur.leds_o = pre.leds_o
               /\ cur.wr = 0

\* a held edge of record_play in PLAYING with nonzero addr, end_addr, data_i
\* and leds_o, straight after a sample pulse
C11_Witness ==
    /\ AfterEdge
    /\ design = "record_play"
    /\ pre.reset = 0 /\ pre.do_sample = 0
    /\ pre.state = PLAYING /\ pre.addr = 1 /\ pre.end_addr = 1
    /\ pre.data_i = 1 /\ pre.leds_o = 31
    /\ cur.state = PLAYING /\ cur.leds_o = 31

====
